---- MODULE Spec2Model ----
(***************************************************************************)
(* PlannerMPI: the genetic-algorithm operators of src/algorithm/mod.rs     *)
(* (create_first_population, rand_parents, crossover, mutate,              *)
(* calculate_fitness) and the seeded generator they all draw from.         *)
(*                                                                         *)
(* Every operator obtains its generator from get_random_generator, which   *)
(* seeds a StdRng with the same 32 bytes on every call.  The words such a  *)
(* generator yields are a fixed function of the seed and of the position   *)
(* in the stream; the function itself is not interpreted here: `stream`    *)
(* is one arbitrary but fixed word sequence, chosen once and never         *)
(* changed, read cyclically.  A generator is its position in that stream.  *)
(* A word w stands for the fraction w / RawMax of the generator's range,   *)
(* and every sampling call (gen_range, gen_bool, WeightedIndex::sample,    *)
(* one step of choose) takes one word and scales it to its own range.      *)
(***************************************************************************)
EXTENDS Integers, Sequences, FiniteSets, TLC

\* ------------------------------------------------------------------ bounds
MaxTuples == 3
MaxPeriods == 3
\* periods of the individuals given to crossover
CrossPeriods == 2
MaxPopulation == 2
\* words of the seeded stream before it repeats, and the size of one word
StreamLen == 3
RawMax == 4
\* calls of one operator, one after the other
MaxCalls == 2

\* ------------------------------------------------------- program constants
Seed == 42
SameTeacherPenalty == 10
DifferentTeacherPenalty == 20

VARIABLES
    op,                 \* the operator under execution
    pc,                 \* its position
    config,             \* AlgorithmConfig
    tuples,             \* the tuple set, in its given order
    stream,             \* the words of the generator seeded with Seed
    population,         \* Population
    rng,                \* the generator of the running sequential code
    sorted_parents,     \* rand_parents: population positions, best first
    idx1, idx2,         \* rand_parents: the two drawn indices (0-based)
    slots,              \* crossover: output slot of each period's task
    generators,         \* crossover: start state of each generator obtained
    mating_point,       \* crossover: cut index drawn by each period's task
    child,              \* crossover: the child Individual
    individual,         \* mutate / calculate_fitness: the Individual
    period_id,          \* mutate: loop variable
    moved,              \* mutate: the relocations of the running pass, in order
    individual_fitness, \* calculate_fitness: the result
    call_in,            \* the input of the running call
    first,              \* input and output of the first completed call
    calls,              \* calls made so far
    schedule            \* crossover: the periods in the order their tasks ran

vars == <<op, pc, config, tuples, stream, population, rng, sorted_parents,
          idx1, idx2, slots, generators, mating_point, child, individual,
          period_id, moved, individual_fitness, call_in, first, calls, schedule>>

\* ------------------------------------------------------------- data model
Raw == 0..(RawMax - 1)

\* mutation_probability is ProbNum / RawMax; RawMax / RawMax is 1.0
Probabilities == {0, RawMax \div 2, RawMax}

Tuple(i, t, r) == [id |-> i, teacher |-> t, room |-> r]

Chromosome(i) == [id |-> i, genes |-> <<>>]

NoChromosome == [id |-> -1, genes |-> <<>>]

NewIndividual == [chromosomes |-> <<>>, adaptation |-> 0]

WithChromosomes(cs) == [chromosomes |-> cs, adaptation |-> 0]

NoIndividual == [chromosomes |-> <<>>, adaptation |-> 1]

Contains(s, x) == \E i \in DOMAIN s : s[i] = x

Remove(s, i) == SubSeq(s, 1, i - 1) \o SubSeq(s, i + 1, Len(s))

RECURSIVE Flatten(_)
Flatten(cs) ==
    IF cs = <<>> THEN <<>> ELSE Head(cs).genes \o Flatten(Tail(cs))

\* ------------------------------------------------------------- generator
NoGenerator == [seed |-> Seed, pos |-> 0]

get_random_generator == [seed |-> Seed, pos |-> 1]

\* the generator after k further words
Skip(g, k) == [g EXCEPT !.pos = ((g.pos - 1 + k) % StreamLen) + 1]

\* the k-th next word of generator g (k = 0: the next one)
WordAt(g, k) == stream[Skip(g, k).pos]

\* gen_range(low..high) on one word: widening multiply, high part
GenRange(w, low, high) == low + ((w * (high - low)) \div RawMax)

\* gen_bool(p): 1.0 is always true and takes no word
GenBoolWords(p) == IF p = RawMax THEN 0 ELSE 1

GenBool(w, p) == IF p = RawMax THEN TRUE ELSE w < p

\* IteratorRandom::choose on an iterator without exact size hint: the i-th
\* element replaces the result when gen_range(0..i) = 0; 0 when n = 0 (None)
Choose(g, n) ==
    LET hits == {i \in 1..n : GenRange(WordAt(g, i - 1), 0, i) = 0}
    IN  IF n = 0 THEN 0 ELSE CHOOSE i \in hits : \A j \in hits : j <= i

\* ------------------------------------------------------------ input sets
\* tuple sets with unique positive ids; teachers alternate, one room
DefaultTuples(n) == [i \in 1..n |-> Tuple(i, 1 + (i % 2), 1)]

\* tuple sets with every assignment of two teachers and two rooms
TupleSets(n) ==
    {[i \in 1..n |-> Tuple(i, t[i], r[i])] : t \in [1..n -> 1..2], r \in [1..n -> 1..2]}

TupleIds(ts) == {ts[i].id : i \in DOMAIN ts}

Orders(ts) == {f \in [1..Len(ts) -> TupleIds(ts)] : \A i, j \in 1..Len(ts) : f[i] = f[j] => i = j}

Cuts(n, len) ==
    {c \in [0..n -> 0..len] : c[0] = 0 /\ c[n] = len /\ \A p \in 1..n : c[p - 1] <= c[p]}

\* every Individual of n periods that holds each tuple id exactly once
Individuals(n, ts) ==
    {WithChromosomes([p \in 1..n |->
        [id |-> p - 1, genes |-> SubSeq(f, c[p - 1] + 1, c[p])]]) :
            f \in Orders(ts), c \in Cuts(n, Len(ts))}

\* ------------------------------------------------------ calculate_fitness
\* tuples.iter().find(|t| t.id == *gene_id): the first position, 0 when none
FindTuple(ts, gene_id) ==
    IF \E i \in DOMAIN ts : ts[i].id = gene_id
    THEN CHOOSE i \in DOMAIN ts :
            ts[i].id = gene_id /\ \A j \in 1..(i - 1) : ts[j].id # gene_id
    ELSE 0

\* the filter chain without its second filter: a gene is paired with itself
ThisRoomClassesWithSelf(genes, tuple, ts) ==
    {i \in DOMAIN ts : Contains(genes, ts[i].id) /\ ts[i].room = tuple.room}

\* the filter chain this_room_classes, as positions of the tuple list
ThisRoomClasses(genes, tuple, ts) ==
    {i \in DOMAIN ts :
        Contains(genes, ts[i].id) /\ ts[i].id # tuple.id /\ ts[i].room = tuple.room}

\* what one iteration of the inner loop subtracts
GenePenalty(genes, gene_id, ts) ==
    LET tuple == ts[FindTuple(ts, gene_id)]
        this_room_classes == ThisRoomClasses(genes, tuple, ts)
        same_teacher_different_classes_count ==
            Cardinality({i \in this_room_classes : ts[i].teacher = tuple.teacher})
        same_room_different_teacher_count ==
            Cardinality({i \in this_room_classes : ts[i].teacher # tuple.teacher})
    IN  (same_teacher_different_classes_count * SameTeacherPenalty)
        + (same_room_different_teacher_count * DifferentTeacherPenalty)

RECURSIVE PeriodPenalty(_, _, _)
PeriodPenalty(genes, rest, ts) ==
    IF rest = <<>> THEN 0
    ELSE GenePenalty(genes, Head(rest), ts) + PeriodPenalty(genes, Tail(rest), ts)

RECURSIVE FitnessLoop(_, _, _)
FitnessLoop(cs, ts, acc) ==
    IF cs = <<>> THEN acc
    ELSE FitnessLoop(Tail(cs), ts, acc - PeriodPenalty(Head(cs).genes, Head(cs).genes, ts))

calculate_fitness(ind, ts) == FitnessLoop(ind.chromosomes, ts, 0)

\* .expect("Tuple with id {} not found")
FitnessPanics(ind, ts) ==
    \E i \in DOMAIN Flatten(ind.chromosomes) : FindTuple(ts, Flatten(ind.chromosomes)[i]) = 0

Scored(ind, ts) == [ind EXCEPT !.adaptation = calculate_fitness(ind, ts)]

\* ------------------------------------------------ create_first_population
\* periods numbered from 1
CreatePeriodsFromOne(n) == [p \in 1..n |-> Chromosome(p)]

CreatePeriods(n) == [p \in 1..n |-> Chromosome(p - 1)]

PushGene(ind, p, gene) == [ind EXCEPT !.chromosomes[p + 1].genes = Append(@, gene)]

\* the loop over tuples: one draw and one push per tuple
RECURSIVE AssignTuples(_, _, _, _)
AssignTuples(ind, ts, g, n) ==
    IF ts = <<>> THEN ind
    ELSE LET random_period_index == GenRange(WordAt(g, 0), 0, n)
         IN  AssignTuples(PushGene(ind, random_period_index, Head(ts).id),
                          Tail(ts), Skip(g, 1), n)

CreateIndividual(g, n, ts) ==
    AssignTuples([NewIndividual EXCEPT !.chromosomes = CreatePeriods(n)], ts, g, n)

\* ----------------------------------------------------------- rand_parents
\* f64::exp(-0.3 * x + 2), in thousandths
WeightTable == <<7389, 5474, 4055, 3004, 2226, 1649>>

Weight(x) == WeightTable[x + 1]

RECURSIVE CumulativeWeight(_)
CumulativeWeight(k) == IF k = 0 THEN 0 ELSE CumulativeWeight(k - 1) + Weight(k - 1)

\* WeightedIndex::sample on one word: a uniform value below the total weight,
\* then the number of cumulative weights (the last left out) not above it
WeightedSample(w, n) ==
    LET chosen_weight == (w * CumulativeWeight(n)) \div RawMax
    IN  Cardinality({i \in 1..(n - 1) : CumulativeWeight(i) <= chosen_weight})

\* sorted_by(|a, b| b.adaptation.partial_cmp(&a.adaptation)): stable, best
\* first; the result holds positions of the population
SortedParents(pop) ==
    CHOOSE s \in [1..Len(pop) -> 1..Len(pop)] :
        \A i, j \in 1..Len(pop) :
            i < j => \/ pop[s[i]].adaptation > pop[s[j]].adaptation
                     \/ pop[s[i]].adaptation = pop[s[j]].adaptation /\ s[i] < s[j]

\* the loop left on the first draw, whatever it is
SecondAcceptedAlways(idx, first_idx) == TRUE

\* the loop's exit test on the second index
SecondAccepted(idx, first_idx) == idx # first_idx

\* -------------------------------------------------------------- crossover
Min(a, b) == IF a < b THEN a ELSE b

\* one generator shared by the tasks, each taking the words after the last
TaskGeneratorShared(p) == Skip(get_random_generator, Len(schedule))

\* the generator a period's task obtains
TaskGenerator(p) == get_random_generator

\* the left segment taken from the other parent in odd periods
MotherGenesAlternating(mother_chromosome, father_chromosome) ==
    IF mother_chromosome.id % 2 = 1 THEN mother_chromosome.genes
    ELSE father_chromosome.genes

\* lines 113-114: the genes named mother_genes are the father's chromosome's
MotherGenes(mother_chromosome, father_chromosome) == father_chromosome.genes

FatherGenes(mother_chromosome, father_chromosome) == mother_chromosome.genes

MatingPoint(mother_genes, father_genes, g) ==
    LET mating_point_upper_bound == Min(Len(mother_genes), Len(father_genes))
    IN  GenRange(WordAt(g, 0), 0, mating_point_upper_bound + 1)

\* split_at twice, then mother_left chained with father_right
ChildGenes(mother_genes, father_genes, mp) ==
    SubSeq(mother_genes, 1, mp) \o SubSeq(father_genes, mp + 1, Len(father_genes))

\* a join that waits for one task only
SomeRecombined(n) == \E p \in 0..(n - 1) : slots[p] # NoChromosome

\* the join of the parallel map: every slot has been written
AllRecombined(n) == \A p \in 0..(n - 1) : slots[p] # NoChromosome

LostGenes(mother, ch) ==
    LET all_genes == Flatten(mother.chromosomes)
        Lost(g) == ~\E i \in DOMAIN ch.chromosomes : Contains(ch.chromosomes[i].genes, g)
    IN  SelectSeq(all_genes, Lost)

\* the repair loop: one draw and one push per lost gene
RECURSIVE RepairLost(_, _, _, _)
RepairLost(ch, lost_genes, g, n) ==
    IF lost_genes = <<>> THEN ch
    ELSE LET repair_period == GenRange(WordAt(g, 0), 0, n)
         IN  RepairLost(PushGene(ch, repair_period, Head(lost_genes)),
                        Tail(lost_genes), Skip(g, 1), n)

\* genes.retain(|x| seen.insert(x)) on one gene list
RECURSIVE RetainUnseen(_, _)
RetainUnseen(genes, seen) ==
    IF genes = <<>> THEN <<>>
    ELSE IF Head(genes) \in seen THEN RetainUnseen(Tail(genes), seen)
         ELSE <<Head(genes)>> \o RetainUnseen(Tail(genes), seen \cup {Head(genes)})

\* no deduplication
KeepDuplicates(cs, seen) == cs

RECURSIVE RemoveDuplicates(_, _)
RemoveDuplicates(cs, seen) ==
    IF cs = <<>> THEN <<>>
    ELSE <<[Head(cs) EXCEPT !.genes = RetainUnseen(Head(cs).genes, seen)]>>
         \o RemoveDuplicates(Tail(cs), seen \cup {Head(cs).genes[i] : i \in DOMAIN Head(cs).genes})

\* ----------------------------------------------------------------- mutate
\* genes.remove(gene_index), then retain(|g| g != &gene)
RemoveGene(genes, gene_index) ==
    LET gene == genes[gene_index + 1]
        Other(g) == g # gene
    IN  SelectSeq(Remove(genes, gene_index + 1), Other)

\* every chromosome a target, the gene's own period included
TargetsUnfiltered(ind, p) == [i \in 1..Len(ind.chromosomes) |-> i]

\* .iter_mut().filter(|target| target.id != period_id): chromosome positions
Targets(ind, p) ==
    LET Kept(i) == ind.chromosomes[i].id # p
    IN  SelectSeq([i \in 1..Len(ind.chromosomes) |-> i], Kept)

\* ------------------------------------------------------------------ state
NoGenerators(n) ==
    [rand_parents |-> NoGenerator, repair |-> NoGenerator,
     tasks |-> [p \in 0..(n - 1) |-> NoGenerator]]

Config(ps, np, mp) ==
    [population_size |-> ps, number_of_periods |-> np, mutation_probability |-> mp]

Locals ==
    /\ rng = NoGenerator
    /\ sorted_parents = <<>>
    /\ idx1 = -1
    /\ idx2 = -1
    /\ slots = <<>>
    /\ generators = NoGenerators(0)
    /\ mating_point = <<>>
    /\ child = NoIndividual
    /\ period_id = 0
    /\ moved = <<>>
    /\ individual_fitness = 0
    /\ first = <<>>
    /\ calls = 0
    /\ schedule = <<>>
    /\ pc = "call"

InitCreate ==
    /\ op = "create"
    /\ \E ps \in 1..MaxPopulation, np \in 1..MaxPeriods : config = Config(ps, np, 0)
    /\ \E n \in 0..MaxTuples : tuples = DefaultTuples(n)
    /\ population = <<>>
    /\ individual = NoIndividual
    /\ call_in = <<config, tuples>>
    /\ stream \in [1..StreamLen -> Raw]
    /\ Locals

InitCrossover ==
    /\ op = "crossover"
    /\ \E n \in 0..MaxTuples : tuples = DefaultTuples(n)
    /\ \E ps \in 1..MaxPopulation, np \in 1..CrossPeriods :
        /\ config = Config(ps, np, 0)
        /\ population \in [1..ps -> {Scored(i, tuples) : i \in Individuals(np, tuples)}]
    /\ individual = NoIndividual
    /\ call_in = <<config, population>>
    /\ stream \in [1..StreamLen -> Raw]
    /\ Locals

InitMutate ==
    /\ op = "mutate"
    /\ \E n \in 0..MaxTuples : tuples = DefaultTuples(n)
    /\ \E np \in 1..MaxPeriods, mp \in Probabilities :
        /\ config = Config(1, np, mp)
        /\ individual \in Individuals(np, tuples)
    /\ population = <<>>
    /\ call_in = <<>>
    /\ stream \in [1..StreamLen -> Raw]
    /\ Locals

InitFitness ==
    /\ op = "fitness"
    /\ \E n \in 0..MaxTuples : tuples \in TupleSets(n)
    /\ \E np \in 1..MaxPeriods :
        /\ config = Config(1, np, 0)
        /\ individual \in Individuals(np, tuples)
    /\ population = <<>>
    /\ call_in = <<>>
    /\ stream = [i \in 1..StreamLen |-> 0]
    /\ Locals

Init == InitCreate \/ InitCrossover \/ InitMutate \/ InitFitness

Returned(out) ==
    /\ pc' = "returned"
    /\ first' = IF first = <<>> THEN <<call_in, out, schedule>> ELSE first

\* ------------------------------------------------ create_first_population
CreateStart ==
    /\ op = "create" /\ pc = "call"
    /\ population' = <<>>
    /\ rng' = get_random_generator
    /\ pc' = "create_loop"
    /\ calls' = calls + 1
    /\ UNCHANGED <<op, config, tuples, stream, sorted_parents, idx1, idx2, slots,
                   generators, mating_point, child, individual, period_id, moved,
                   individual_fitness, call_in, first, schedule>>

\* one iteration of the loop over 0..population_size
CreatePush ==
    /\ op = "create" /\ pc = "create_loop"
    /\ Len(population) < config.population_size
    /\ population' = Append(population,
                            CreateIndividual(rng, config.number_of_periods, tuples))
    /\ rng' = Skip(rng, Len(tuples))
    /\ UNCHANGED <<op, pc, config, tuples, stream, sorted_parents, idx1, idx2, slots,
                   generators, mating_point, child, individual, period_id, moved,
                   individual_fitness, call_in, first, calls, schedule>>

CreateReturn ==
    /\ op = "create" /\ pc = "create_loop"
    /\ Len(population) = config.population_size
    /\ Returned(population)
    /\ UNCHANGED <<op, config, tuples, stream, population, rng, sorted_parents, idx1,
                   idx2, slots, generators, mating_point, child, individual,
                   period_id, moved, individual_fitness, call_in, calls, schedule>>

\* ----------------------------------------------------------- rand_parents
RandParentsFirst ==
    /\ op = "crossover" /\ pc = "call"
    /\ calls' = calls + 1
    /\ IF Len(population) > 1
       THEN /\ sorted_parents' = SortedParents(population)
            /\ idx1' = WeightedSample(WordAt(get_random_generator, 0), Len(population))
            /\ rng' = Skip(get_random_generator, 1)
            /\ generators' = [generators EXCEPT !.rand_parents = get_random_generator]
            /\ pc' = "select_second"
       ELSE /\ pc' = "panicked"
            /\ UNCHANGED <<sorted_parents, idx1, rng, generators>>
    /\ UNCHANGED <<op, config, tuples, stream, population, idx2, slots, mating_point,
                   child, individual, period_id, moved, individual_fitness, call_in,
                   first, schedule>>

Mother == population[sorted_parents[idx1 + 1]]

Father == population[sorted_parents[idx2 + 1]]

\* one iteration of the loop that draws the second index
RandParentsSecond ==
    /\ op = "crossover" /\ pc = "select_second"
    /\ LET idx == WeightedSample(WordAt(rng, 0), Len(population))
       IN  IF SecondAccepted(idx, idx1)
           THEN LET n == Min(Len(population[sorted_parents[idx1 + 1]].chromosomes),
                             Len(population[sorted_parents[idx + 1]].chromosomes))
                IN  /\ idx2' = idx
                    /\ slots' = [p \in 0..(n - 1) |-> NoChromosome]
                    /\ mating_point' = [p \in 0..(n - 1) |-> -1]
                    /\ generators' = [generators EXCEPT
                                        !.tasks = [p \in 0..(n - 1) |-> NoGenerator]]
                    /\ pc' = "recombine"
           ELSE UNCHANGED <<idx2, slots, mating_point, generators, pc>>
    /\ rng' = Skip(rng, 1)
    /\ UNCHANGED <<op, config, tuples, stream, population, sorted_parents, idx1, child,
                   individual, period_id, moved, individual_fitness, call_in, first,
                   calls, schedule>>

\* -------------------------------------------------------------- crossover
\* the task of one period of the parallel map
RecombinePeriod ==
    /\ op = "crossover" /\ pc = "recombine"
    /\ \E p \in DOMAIN slots :
        /\ slots[p] = NoChromosome
        /\ LET mother_chromosome == Mother.chromosomes[p + 1]
               father_chromosome == Father.chromosomes[p + 1]
               g == TaskGenerator(p)
               mother_genes == MotherGenes(mother_chromosome, father_chromosome)
               father_genes == FatherGenes(mother_chromosome, father_chromosome)
               mp == MatingPoint(mother_genes, father_genes, g)
           IN  IF mother_chromosome.id = father_chromosome.id
               THEN /\ slots' = [slots EXCEPT ![p] =
                                    [id |-> mother_chromosome.id,
                                     genes |-> ChildGenes(mother_genes, father_genes, mp)]]
                    /\ mating_point' = [mating_point EXCEPT ![p] = mp]
                    /\ generators' = [generators EXCEPT !.tasks[p] = g]
                    /\ schedule' = Append(schedule, p)
                    /\ pc' = pc
               ELSE /\ pc' = "panicked"
                    /\ UNCHANGED <<slots, mating_point, generators, schedule>>
    /\ UNCHANGED <<op, config, tuples, stream, population, rng, sorted_parents, idx1,
                   idx2, child, individual, period_id, moved, individual_fitness,
                   call_in, first, calls>>

\* .collect() into Individual::with_chromosomes: the slots in period order
Collect ==
    /\ op = "crossover" /\ pc = "recombine"
    /\ AllRecombined(Len(Mother.chromosomes))
    /\ child' = WithChromosomes([i \in 1..Len(Mother.chromosomes) |-> slots[i - 1]])
    /\ pc' = "repair"
    /\ UNCHANGED <<op, config, tuples, stream, population, rng, sorted_parents, idx1,
                   idx2, slots, generators, mating_point, individual, period_id, moved,
                   individual_fitness, call_in, first, calls, schedule>>

\* repair lost, then remove duplicates
RepairAndDeduplicate ==
    /\ op = "crossover" /\ pc = "repair"
    /\ LET lost_genes == LostGenes(Mother, child)
           repaired == RepairLost(child, lost_genes, get_random_generator,
                                  config.number_of_periods)
           result == [repaired EXCEPT !.chromosomes = RemoveDuplicates(@, {})]
       IN  /\ child' = result
           /\ rng' = Skip(get_random_generator, Len(lost_genes))
           /\ generators' = [generators EXCEPT !.repair = get_random_generator]
           /\ Returned(result)
    /\ UNCHANGED <<op, config, tuples, stream, population, sorted_parents, idx1, idx2,
                   slots, mating_point, individual, period_id, moved,
                   individual_fitness, call_in, calls, schedule>>

\* ----------------------------------------------------------------- mutate
MutateStart ==
    /\ op = "mutate" /\ pc = "call"
    /\ rng' = get_random_generator
    /\ period_id' = 0
    /\ moved' = <<>>
    /\ call_in' = <<config, individual>>
    /\ calls' = calls + 1
    /\ pc' = "mutate_loop"
    /\ UNCHANGED <<op, config, tuples, stream, population, sorted_parents, idx1, idx2,
                   slots, generators, mating_point, child, individual,
                   individual_fitness, first, schedule>>

\* one iteration of the loop over 0..number_of_periods
MutatePeriod ==
    /\ op = "mutate" /\ pc = "mutate_loop"
    /\ period_id < config.number_of_periods
    /\ LET mutation_probability == config.mutation_probability
           g1 == Skip(rng, GenBoolWords(mutation_probability))
           genes == individual.chromosomes[period_id + 1].genes
           gene_count == Len(genes)
       IN  IF ~GenBool(WordAt(rng, 0), mutation_probability) \/ gene_count = 0
           THEN /\ rng' = g1
                /\ period_id' = period_id + 1
                /\ UNCHANGED <<individual, moved, pc>>
           ELSE LET gene_index == GenRange(WordAt(g1, 0), 0, gene_count)
                    gene == genes[gene_index + 1]
                    taken == [individual EXCEPT !.chromosomes[period_id + 1].genes =
                                RemoveGene(genes, gene_index)]
                    g2 == Skip(g1, 1)
                    targets == Targets(taken, period_id)
                    k == Choose(g2, Len(targets))
                IN  /\ rng' = Skip(g2, Len(targets))
                    /\ IF k = 0
                       THEN /\ individual' = taken
                            /\ pc' = "panicked"
                            /\ UNCHANGED <<period_id, moved>>
                       ELSE /\ individual' = PushGene(taken, targets[k] - 1, gene)
                            /\ moved' = Append(moved, [gene |-> gene, from |-> period_id,
                                                        to |-> targets[k] - 1])
                            /\ period_id' = period_id + 1
                            /\ pc' = pc
    /\ UNCHANGED <<op, config, tuples, stream, population, sorted_parents, idx1, idx2,
                   slots, generators, mating_point, child, individual_fitness,
                   call_in, first, calls, schedule>>

MutateReturn ==
    /\ op = "mutate" /\ pc = "mutate_loop"
    /\ period_id = config.number_of_periods
    /\ Returned(individual)
    /\ UNCHANGED <<op, config, tuples, stream, population, rng, sorted_parents, idx1,
                   idx2, slots, generators, mating_point, child, individual,
                   period_id, moved, individual_fitness, call_in, calls, schedule>>

\* ------------------------------------------------------ calculate_fitness
CalculateFitness ==
    /\ op = "fitness" /\ pc = "call"
    /\ calls' = calls + 1
    /\ IF FitnessPanics(individual, tuples)
       THEN /\ pc' = "panicked"
            /\ UNCHANGED individual_fitness
       ELSE /\ individual_fitness' = calculate_fitness(individual, tuples)
            /\ pc' = "returned"
    /\ UNCHANGED <<op, config, tuples, stream, population, rng, sorted_parents, idx1,
                   idx2, slots, generators, mating_point, child, individual,
                   period_id, moved, call_in, first, schedule>>

\* ---------------------------------------------------------------- callers
\* the operator is called once more: on the same population (create,
\* crossover) or on the individual as the last call left it (mutate)
CallAgain ==
    /\ pc = "returned" /\ calls < MaxCalls
    /\ op \in {"create", "crossover", "mutate"}
    /\ pc' = "call"
    /\ rng' = NoGenerator
    /\ sorted_parents' = <<>>
    /\ idx1' = -1
    /\ idx2' = -1
    /\ slots' = <<>>
    /\ generators' = NoGenerators(0)
    /\ mating_point' = <<>>
    /\ child' = NoIndividual
    /\ schedule' = <<>>
    /\ moved' = <<>>
    /\ period_id' = 0
    /\ population' = IF op = "create" THEN <<>> ELSE population
    /\ UNCHANGED <<op, config, tuples, stream, individual, individual_fitness,
                   call_in, first, calls>>

\* mutate is run again on the individual the first call was given
CallRepeat ==
    /\ pc = "returned" /\ calls < MaxCalls
    /\ op = "mutate"
    /\ individual # first[1][2]
    /\ individual' = first[1][2]
    /\ pc' = "call"
    /\ rng' = NoGenerator
    /\ moved' = <<>>
    /\ period_id' = 0
    /\ UNCHANGED <<op, config, tuples, stream, population, sorted_parents, idx1, idx2,
                   slots, generators, mating_point, child, individual_fitness,
                   call_in, first, calls, schedule>>

NextCreate == CreateStart \/ CreatePush \/ CreateReturn \/ CallAgain

NextCrossover ==
    \/ RandParentsFirst
    \/ RandParentsSecond
    \/ RecombinePeriod
    \/ Collect
    \/ RepairAndDeduplicate
    \/ CallAgain

NextMutate == MutateStart \/ MutatePeriod \/ MutateReturn \/ CallAgain \/ CallRepeat

NextFitness == CalculateFitness

Next == NextCreate \/ NextCrossover \/ NextMutate \/ NextFitness

Spec == Init /\ [][Next]_vars

SpecCreate == InitCreate /\ [][NextCreate]_vars

SpecCrossover == InitCrossover /\ [][NextCrossover]_vars

SpecMutate == InitMutate /\ [][NextMutate]_vars

SpecFitness == InitFitness /\ [][NextFitness]_vars

\* ----------------------------------------------------------------- claims
\* how often tuple id `id` occurs in the chromosomes of ind
Occurrences(ind, id) ==
    Cardinality({x \in (DOMAIN ind.chromosomes) \X (1..Len(Flatten(ind.chromosomes))) :
        /\ x[2] <= Len(ind.chromosomes[x[1]].genes)
        /\ ind.chromosomes[x[1]].genes[x[2]] = id})

\* invariant I1: every tuple id in exactly one chromosome exactly once, and
\* no other gene
I1(ind, ts) ==
    /\ \A id \in TupleIds(ts) : Occurrences(ind, id) = 1
    /\ Len(Flatten(ind.chromosomes)) = Cardinality(TupleIds(ts))

\* the child as the parallel map left it, before repair
PreRepair == WithChromosomes([i \in 1..Cardinality(DOMAIN slots) |-> slots[i - 1]])

\* C1: the child crossover returns has number_of_periods chromosomes and
\* holds every tuple id exactly once, the parents holding each exactly once.
C1_CrossoverRestoresI1 ==
    (op = "crossover" /\ pc = "returned" /\ I1(Mother, tuples) /\ I1(Father, tuples))
        => /\ Len(child.chromosomes) = config.number_of_periods
           /\ I1(child, tuples)

\* a child returned after the map lost one gene and duplicated another
C1_Witness ==
    /\ op = "crossover" /\ pc = "returned"
    /\ I1(Mother, tuples) /\ I1(Father, tuples)
    /\ LostGenes(Mother, PreRepair) # <<>>
    /\ \E id \in TupleIds(tuples) : Occurrences(PreRepair, id) > 1
    /\ I1(child, tuples)

\* C2: with one period mutate never fails and leaves the gene layout as it
\* was given.
C2_SinglePeriodNoOp ==
    (op = "mutate" /\ config.number_of_periods = 1 /\ pc # "call")
        => /\ pc # "panicked"
           /\ individual = call_in[2]

\* C3: with two periods or more mutate keeps every tuple id exactly once,
\* over any number of calls, and the last relocated gene sits at the end of a
\* period other than the one it was taken from.
C3_MutatePreservesI1 ==
    (op = "mutate" /\ config.number_of_periods >= 2)
        => /\ I1(individual, tuples)
           /\ moved # <<>> =>
                LET m == moved[Len(moved)]
                    target == individual.chromosomes[m.to + 1].genes
                IN  /\ m.to # m.from
                    /\ target # <<>> /\ target[Len(target)] = m.gene
                    /\ ~Contains(individual.chromosomes[m.from + 1].genes, m.gene)

\* a second call in which a gene moved into a later period is moved again
C3_Witness ==
    /\ op = "mutate" /\ calls = 2 /\ pc = "returned"
    /\ config.number_of_periods >= 2
    /\ \E i, j \in DOMAIN moved :
        i < j /\ moved[i].gene = moved[j].gene /\ moved[i].to = moved[j].from
    /\ I1(individual, tuples)

\* C4: create_first_population returns population_size individuals, each of
\* number_of_periods chromosomes whose id is their position, each holding
\* every tuple id exactly once.
C4_FirstPopulation ==
    (op = "create" /\ pc = "returned")
        => /\ Len(population) = config.population_size
           /\ \A k \in DOMAIN population :
                /\ Len(population[k].chromosomes) = config.number_of_periods
                /\ \A i \in DOMAIN population[k].chromosomes :
                        population[k].chromosomes[i].id = i - 1
                /\ I1(population[k], tuples)

\* two different individuals over several periods and tuples
C4_Witness ==
    /\ op = "create" /\ pc = "returned"
    /\ Len(population) >= 2 /\ population[1] # population[2]
    /\ config.number_of_periods >= 2 /\ Len(tuples) >= 2
    /\ \A k \in DOMAIN population : I1(population[k], tuples)

TupleOf(id) == CHOOSE i \in DOMAIN tuples : tuples[i].id = id

\* ordered pairs of distinct genes of one period that share a room
RoomPairs(ind) ==
    {x \in (DOMAIN ind.chromosomes) \X (1..Len(tuples)) \X (1..Len(tuples)) :
        LET genes == ind.chromosomes[x[1]].genes
        IN  /\ x[2] <= Len(genes) /\ x[3] <= Len(genes) /\ x[2] # x[3]
            /\ tuples[TupleOf(genes[x[2]])].room = tuples[TupleOf(genes[x[3]])].room}

SameTeacher(ind, x) ==
    LET genes == ind.chromosomes[x[1]].genes
    IN  tuples[TupleOf(genes[x[2]])].teacher = tuples[TupleOf(genes[x[3]])].teacher

C6_DistinctParents ==
    (op = "crossover" /\ pc \in {"recombine", "repair", "returned"})
        => /\ idx1 \in 0..(Len(population) - 1)
           /\ idx2 \in 0..(Len(population) - 1)
           /\ idx1 # idx2
           /\ sorted_parents[idx1 + 1] # sorted_parents[idx2 + 1]

\* the second draw gave the first index again and was discarded
C6_Witness ==
    /\ op = "crossover" /\ pc = "recombine"
    /\ idx1 = 1 /\ idx2 = 0
    /\ WeightedSample(stream[2], Len(population)) = idx1

Output ==
    CASE op = "create" -> population
      [] op = "crossover" -> child
      [] op = "mutate" -> individual
      [] OTHER -> individual_fitness

\* C7: a call given the input of the first completed call returns what that
\* call returned, whatever order the period tasks ran in.
C7_Deterministic ==
    (pc = "returned" /\ first # <<>> /\ call_in = first[1]) => Output = first[2]

\* a second crossover whose tasks ran in another order, after a repair
C7_Witness ==
    /\ op = "crossover" /\ pc = "returned" /\ calls = 2
    /\ schedule # first[3]
    /\ LostGenes(Mother, PreRepair) # <<>>
    /\ child = first[2]

\* the start states of the generators obtained in the running crossover call
Obtained ==
    {<<0, -1, generators.rand_parents>>, <<0, -2, generators.repair>>}
        \cup {<<1, p, generators.tasks[p]>> : p \in DOMAIN generators.tasks}

\* C8: no two generators obtained in one crossover call (by rand_parents, by
\* the period tasks, by the repair) start in the same state.
C8_IndependentStreams ==
    op = "crossover"
        => \A a, b \in Obtained :
            (a # b /\ a[3] # NoGenerator /\ b[3] # NoGenerator) => a[3] # b[3]

\* C9: each period's cut index is within both parents' lists, and the slot
\* holds the first k genes of the second selected parent's list followed by
\* the first selected parent's genes from k on, in every period alike.
C9_SinglePoint ==
    (op = "crossover" /\ pc \in {"recombine", "repair", "returned"})
        => \A p \in DOMAIN slots :
            slots[p] # NoChromosome =>
                LET left == Father.chromosomes[p + 1].genes
                    right == Mother.chromosomes[p + 1].genes
                    k == mating_point[p]
                IN  /\ k >= 0 /\ k <= Len(left) /\ k <= Len(right)
                    /\ slots[p].genes =
                        [i \in 1..Len(right) |-> IF i <= k THEN left[i] ELSE right[i]]

\* two periods cut inside both lists, between parents that differ there
C9_Witness ==
    /\ op = "crossover" /\ pc = "repair"
    /\ \E p, q \in DOMAIN slots :
        /\ p # q
        /\ mating_point[p] = 1 /\ Len(slots[p].genes) = 2
        /\ mating_point[q] = 1
        /\ Father.chromosomes[p + 1].genes[1] # Mother.chromosomes[p + 1].genes[1]

\* C10: a filled slot p carries id p and only genes of the parents' period p,
\* and once repair has begun every period's task has run, once, and the
\* child's chromosome p is slot p.
C10_ForkJoin ==
    op = "crossover"
        => /\ \A p \in DOMAIN slots :
                slots[p] # NoChromosome =>
                    /\ slots[p].id = p
                    /\ \A i \in DOMAIN slots[p].genes :
                        \/ Contains(Mother.chromosomes[p + 1].genes, slots[p].genes[i])
                        \/ Contains(Father.chromosomes[p + 1].genes, slots[p].genes[i])
           /\ pc \in {"repair", "returned"} =>
                /\ DOMAIN slots = 0..(config.number_of_periods - 1)
                /\ \A p \in DOMAIN slots : slots[p] # NoChromosome
                /\ Len(schedule) = config.number_of_periods
                /\ \A p \in DOMAIN slots : \E i \in DOMAIN schedule : schedule[i] = p
                /\ Len(child.chromosomes) = config.number_of_periods
                /\ \A p \in DOMAIN slots : child.chromosomes[p + 1].id = p
           /\ pc = "repair" => \A p \in DOMAIN slots : child.chromosomes[p + 1] = slots[p]

\* the join passed after the tasks ran against the period order
C10_Witness ==
    /\ op = "crossover" /\ pc = "repair"
    /\ schedule = <<1, 0>>
    /\ child.chromosomes[1].genes # <<>> /\ child.chromosomes[2].genes # <<>>

====
